---------------------------- MODULE Spec2Model ----------------------------
(***************************************************************************)
(* A state-machine model of the modal editor in src/vi.py (class Editor).  *)
(*                                                                         *)
(* A line is a sequence of code points, the buffer a sequence of lines.    *)
(* Positions are (line, column) pairs counted from 0, as in the source;    *)
(* TLA+ sequences are indexed from 1, so line l of the source is           *)
(* buffer[l + 1].  One step of the model is one pass of main_loop: one     *)
(* input unit read by getch and handled by handle_input.                   *)
(***************************************************************************)
EXTENDS Integers, Sequences, FiniteSets, TLC

VARIABLES
    buffer,        \* self.buffer: the lines
    pos,           \* self.pos: <<line, column>>
    mode,          \* self.mode: "command", "insert" or "visual"
    visual_start,  \* self.visual_start: None or a position
    utf8buffer,    \* self.utf8buffer: the bytes not yet decoded
    running,       \* main_loop: the value handle_input returned last
    key,           \* the input unit getch returned last (NoKey before any)
    handler,       \* the handler handle_input passed that unit to
    cmd,           \* the line getstr returned during the last event, or None
    session        \* since the last 'i' of Command mode, while only printable
                   \* ASCII units (and then ESC) were read: the buffer and the
                   \* cursor at that 'i' and the units read since; else None

vars == <<buffer, pos, mode, visual_start, utf8buffer, running, key, handler, cmd,
          session>>

(***************************************************************************)
(* Bounds of the model.                                                    *)
(***************************************************************************)
MaxChars == 2      \* typing is cut off when the buffer holds this many characters
MaxLines == 2      \* Enter is cut off when the buffer holds this many lines
MaxPending == 2    \* a byte is not buffered when utf8buffer holds this many
MaxDecodePending == 3   \* the same cut-off under DecodeSpec
MaxSplitLines == 3      \* the cut-off of Enter under LineSpec

(***************************************************************************)
(* Input units.  Key codes of the source.                                  *)
(***************************************************************************)
ESC == 27
ENTER == 10
DEL == 127
TAB == 9
KEY_BACKSPACE == 263
KEY_DOWN == 258
NoKey == -1
None == <<>>

\* ord('i'), ord('a'), ... as the handlers compare them
ord_i == 105
ord_a == 97
ord_v == 118
ord_h == 104
ord_j == 106
ord_k == 107
ord_l == 108
ord_d == 100
ord_y == 121
ord_x == 120
ord_colon == 58

\* Bytes of three multi-byte characters: U+00E9 = C3 A9, U+4A69 = E4 A9 A9,
\* U+29A69 = F0 A9 A9 A9.
LeadTwo == 195
LeadThree == 228
LeadFour == 240
Cont == 169

\* The units each handler is fed.  handle_command and handle_visual compare
\* the unit with a fixed list of letters; 'x' and 'd' (resp. 'i' and 'a') stand
\* for the units the handler has no branch for.
CommandKeys == {ord_i, ord_a, ord_v, ord_h, ord_j, ord_k, ord_l, ord_colon, ord_x, ord_d}
VisualKeys == {ESC, ord_d, ord_y, ord_h, ord_j, ord_k, ord_l, ord_i, ord_a}
\* handle_insert is fed 'a' for the printable ASCII bytes, the bytes of the
\* two-byte character, and the control units.
InsertKeys == {ord_a, LeadTwo, Cont, ESC, ENTER, DEL, TAB, KEY_BACKSPACE, KEY_DOWN}

\* Under DecodeSpec the editor starts on the empty buffer, is put in Insert
\* mode and is fed the bytes of all three multi-byte characters.
DecodeCommandKeys == {ord_i, ord_a}
DecodeInsertKeys == {ord_a, LeadTwo, LeadThree, LeadFour, Cont, ESC, KEY_BACKSPACE}

\* Under LineSpec the editor is fed the motions, 'i' and 'a', and in Insert
\* mode 'a', Enter, both backspaces and ESC.
LineCommandKeys == {ord_i, ord_a, ord_h, ord_j, ord_k, ord_l}
LineInsertKeys == {ord_a, ESC, ENTER, DEL, KEY_BACKSPACE}

\* The lines the ex-command collaborator (getstr) may return.
ExLines == {"w", "q", "wq", "", "x"}

\* cmd when getstr returned line c
Line(c) == <<c>>

(***************************************************************************)
(* Sequences as Python slices.                                             *)
(***************************************************************************)
Min(a, b) == IF a < b THEN a ELSE b

\* s[:n] for n >= 0
Take(s, n) == SubSeq(s, 1, Min(n, Len(s)))

\* s[n:] for n >= 0
Drop(s, n) == SubSeq(s, Min(n, Len(s)) + 1, Len(s))

\* self.buffer[l]
LineAt(buf, l) == buf[l + 1]

\* len(self.buffer[l])
LineLen(buf, l) == Len(buf[l + 1])

RECURSIVE TotalChars(_)
TotalChars(buf) ==
    IF buf = <<>> THEN 0 ELSE Len(Head(buf)) + TotalChars(Tail(buf))

(***************************************************************************)
(* bytes(...).decode("utf-8"): the strict UTF-8 decoder.  The whole byte   *)
(* sequence must be a concatenation of well-formed encodings; anything     *)
(* else raises UnicodeDecodeError.                                         *)
(***************************************************************************)
\* The length of the encoding a lead byte announces, 0 for a byte that starts none.
Utf8SeqLen(b) ==
    IF b \in 0..127 THEN 1
    ELSE IF b \in 194..223 THEN 2
    ELSE IF b \in 224..239 THEN 3
    ELSE IF b \in 240..244 THEN 4
    ELSE 0

\* The range of the second byte after lead byte b (no overlong forms, no
\* surrogates, nothing above U+10FFFF).
Utf8SecondRange(b) ==
    IF b = 224 THEN 160..191
    ELSE IF b = 237 THEN 128..159
    ELSE IF b = 240 THEN 144..191
    ELSE IF b = 244 THEN 128..143
    ELSE 128..191

\* bs is the well-formed encoding of one character
Utf8WellFormed(bs) ==
    /\ Len(bs) >= 1
    /\ Utf8SeqLen(bs[1]) = Len(bs)
    /\ Len(bs) >= 2 => bs[2] \in Utf8SecondRange(bs[1])
    /\ \A i \in 3..Len(bs) : bs[i] \in 128..191

\* The code point a well-formed encoding stands for
Utf8CodePoint(bs) ==
    IF Len(bs) = 1 THEN bs[1]
    ELSE IF Len(bs) = 2 THEN (bs[1] % 32) * 64 + (bs[2] % 64)
    ELSE IF Len(bs) = 3 THEN (bs[1] % 16) * 4096 + (bs[2] % 64) * 64 + (bs[3] % 64)
    ELSE (bs[1] % 8) * 262144 + (bs[2] % 64) * 4096 + (bs[3] % 64) * 64 + (bs[4] % 64)

\* The decoder: [ok |-> TRUE, s |-> the decoded string], or ok = FALSE for
\* UnicodeDecodeError.
RECURSIVE Utf8Decode(_)
Utf8Decode(bs) ==
    IF bs = <<>> THEN [ok |-> TRUE, s |-> <<>>]
    ELSE LET n == Utf8SeqLen(bs[1])
         IN  IF n = 0 \/ Len(bs) < n \/ ~Utf8WellFormed(SubSeq(bs, 1, n))
             THEN [ok |-> FALSE, s |-> <<>>]
             ELSE LET rest == Utf8Decode(SubSeq(bs, n + 1, Len(bs)))
                  IN  IF rest.ok
                      THEN [ok |-> TRUE, s |-> <<Utf8CodePoint(SubSeq(bs, 1, n))>> \o rest.s]
                      ELSE [ok |-> FALSE, s |-> <<>>]

\* isctrl that holds of no unit (the test of line 112 left out)
isctrl_Never(ch) == FALSE

\* curses.ascii.isctrl(chr(ch))
isctrl(ch) == 0 <= ch /\ ch < 32

(***************************************************************************)
(* Editor.__init__ and load_file.                                          *)
(***************************************************************************)
\* What load_file leaves in self.buffer: [""] with no file or an empty
\* file, else the file's lines.
Files == { << <<>> >>,
           << <<97, 98>>, <<99, 100>> >>,
           << <<97>>, <<98, 99>>, <<100>> >> }

Init ==
    /\ buffer \in Files
    /\ pos = <<0, 0>>
    /\ mode = "command"
    /\ visual_start = None
    /\ utf8buffer = <<>>
    /\ running = TRUE
    /\ key = NoKey
    /\ handler = "none"
    /\ cmd = None
    /\ session = None

(***************************************************************************)
(* handle_command.                                                         *)
(***************************************************************************)
\* 'h'
MoveLeft(buf, p) == IF p[2] > 0 THEN <<p[1], p[2] - 1>> ELSE p

\* MoveRight with the end-of-line test off by one (<= for <)
MoveRight_PastEnd(buf, p) ==
    IF p[2] <= LineLen(buf, p[1]) THEN <<p[1], p[2] + 1>> ELSE p

\* 'l', and the motion of 'a'
MoveRight(buf, p) == IF p[2] < LineLen(buf, p[1]) THEN <<p[1], p[2] + 1>> ELSE p

\* MoveDown that keeps the column whatever the length of the next line
MoveDown_KeepsColumn(buf, p) ==
    IF p[1] < Len(buf) - 1 THEN <<p[1] + 1, p[2]>> ELSE p

\* 'j'
MoveDown(buf, p) ==
    IF p[1] < Len(buf) - 1
    THEN <<p[1] + 1, Min(p[2], LineLen(buf, p[1] + 1))>>
    ELSE p

\* 'k'
MoveUp(buf, p) ==
    IF p[1] > 0
    THEN <<p[1] - 1, Min(p[2], LineLen(buf, p[1] - 1))>>
    ELSE p

\* The position handle_command leaves for unit ch
CommandPos(buf, p, ch) ==
    IF ch = ord_a THEN MoveRight(buf, p)
    ELSE IF ch = ord_h THEN MoveLeft(buf, p)
    ELSE IF ch = ord_l THEN MoveRight(buf, p)
    ELSE IF ch = ord_j THEN MoveDown(buf, p)
    ELSE IF ch = ord_k THEN MoveUp(buf, p)
    ELSE p

\* The mode handle_command leaves for unit ch
CommandMode(m, ch) ==
    IF ch = ord_i \/ ch = ord_a THEN "insert"
    ELSE IF ch = ord_v THEN "visual"
    ELSE m

\* CommandAnchor with 'v' anchoring at the start of the cursor's line
CommandAnchor_LineStart(anchor, p, ch) == IF ch = ord_v THEN <<p[1], 0>> ELSE anchor

\* The anchor handle_command leaves for unit ch
CommandAnchor(anchor, p, ch) == IF ch = ord_v THEN p ELSE anchor

\* handle_ex_command's return value for the line c it read
handle_ex_command(c) == IF c = Line("q") \/ c = Line("wq") THEN FALSE ELSE TRUE

\* What handle_command returns.  For ':' the source calls
\* self.handle_ex_command() as a statement: r is computed and dropped, and
\* every branch falls through to "return True".
CommandReturn(ch, c) ==
    LET r == IF ch = ord_colon THEN handle_ex_command(c) ELSE TRUE
    IN  TRUE

\* handle_command(ch); for ':' handle_ex_command reads a line c with getstr
handle_command(ch) ==
    \E c \in (IF ch = ord_colon THEN {Line(c) : c \in ExLines} ELSE {None}) :
        /\ pos' = CommandPos(buffer, pos, ch)
        /\ mode' = CommandMode(mode, ch)
        /\ visual_start' = CommandAnchor(visual_start, pos, ch)
        /\ cmd' = c
        /\ running' = CommandReturn(ch, c)
        /\ UNCHANGED <<buffer, utf8buffer>>

(***************************************************************************)
(* handle_insert.                                                          *)
(***************************************************************************)
\* DecodeStep without the test for ESC: byte 27 is fed to the decoder like
\* any other byte below 256
DecodeStep_EscDecoded(pending, ch) ==
    IF ch < 256
    THEN LET r == Utf8Decode(Append(pending, ch))
         IN  IF r.ok THEN [s |-> r.s, pending |-> <<>>]
             ELSE [s |-> None, pending |-> Append(pending, ch)]
    ELSE [s |-> None, pending |-> <<>>]

\* DecodeStep that, when the bytes decode, yields one character per byte
\* (the bytes read as Latin-1) in place of the decoded string
DecodeStep_Latin1(pending, ch) ==
    IF ch < 256 /\ ch # ESC
    THEN LET r == Utf8Decode(Append(pending, ch))
         IN  IF r.ok THEN [s |-> Append(pending, ch), pending |-> <<>>]
             ELSE [s |-> None, pending |-> Append(pending, ch)]
    ELSE [s |-> None, pending |-> <<>>]

\* DecodeStep without the reset of utf8buffer after a successful decode
DecodeStep_KeepsBytes(pending, ch) ==
    IF ch < 256 /\ ch # ESC
    THEN LET r == Utf8Decode(Append(pending, ch))
         IN  IF r.ok THEN [s |-> r.s, pending |-> Append(pending, ch)]
             ELSE [s |-> None, pending |-> Append(pending, ch)]
    ELSE [s |-> None, pending |-> <<>>]

\* The decoding step at the head of handle_insert: the string s (None when
\* nothing was decoded) and the new utf8buffer.
DecodeStep(pending, ch) ==
    IF ch < 256 /\ ch # ESC
    THEN LET r == Utf8Decode(Append(pending, ch))
         IN  IF r.ok THEN [s |-> r.s, pending |-> <<>>]
             ELSE [s |-> None, pending |-> Append(pending, ch)]
    ELSE [s |-> None, pending |-> <<>>]

\* buffer with line l replaced by new
SetLine(buf, l, new) == [buf EXCEPT ![l + 1] = new]

\* SplitLine that leaves the whole line in place and starts the new line
\* with its tail (the truncation of line 104 missing)
SplitLine_KeepsTail(buf, p) ==
    LET line == LineAt(buf, p[1])
    IN  SubSeq(buf, 1, p[1]) \o <<line, Drop(line, p[2])>>
            \o SubSeq(buf, p[1] + 2, Len(buf))

\* Enter: the line at p split at the column
SplitLine(buf, p) ==
    LET line == LineAt(buf, p[1])
    IN  SubSeq(buf, 1, p[1]) \o <<Take(line, p[2]), Drop(line, p[2])>>
            \o SubSeq(buf, p[1] + 2, Len(buf))

\* DeleteCharBefore that removes the character under the cursor instead
DeleteCharBefore_AtCursor(buf, p) ==
    LET line == LineAt(buf, p[1])
    IN  SetLine(buf, p[1], Take(line, p[2]) \o Drop(line, p[2] + 1))

\* Backspace with column > 0: the character before the column removed
DeleteCharBefore(buf, p) ==
    LET line == LineAt(buf, p[1])
    IN  SetLine(buf, p[1], Take(line, p[2] - 1) \o Drop(line, p[2]))

\* InsertString that puts s in after the character under the cursor
InsertString_After(buf, p, s) ==
    LET line == LineAt(buf, p[1])
    IN  SetLine(buf, p[1], Take(line, p[2] + 1) \o s \o Drop(line, p[2] + 1))

\* The decoded string s put in at p
InsertString(buf, p, s) ==
    LET line == LineAt(buf, p[1])
    IN  SetLine(buf, p[1], Take(line, p[2]) \o s \o Drop(line, p[2]))

\* The branch of handle_insert's if/elif chain that unit ch takes, s being
\* what the decoding step produced
InsertBranch(ch, s) ==
    IF ch = ESC THEN "escape"
    ELSE IF ch = ENTER THEN "enter"
    ELSE IF ch = KEY_BACKSPACE \/ ch = DEL THEN "backspace"
    ELSE IF s # None /\ ~isctrl(ch) THEN "text"
    ELSE "none"

handle_insert(ch) ==
    LET d == DecodeStep(utf8buffer, ch)
        b == InsertBranch(ch, d.s)
    IN  /\ utf8buffer' = d.pending
        /\ mode' = IF b = "escape" THEN "command" ELSE mode
        /\ buffer' = IF b = "enter" THEN SplitLine(buffer, pos)
                     ELSE IF b = "backspace" /\ pos[2] > 0 THEN DeleteCharBefore(buffer, pos)
                     ELSE IF b = "text" THEN InsertString(buffer, pos, d.s)
                     ELSE buffer
        /\ pos' = IF b = "escape" THEN MoveLeft(buffer, pos)
                  ELSE IF b = "enter" THEN <<pos[1] + 1, 0>>
                  ELSE IF b = "backspace" THEN MoveLeft(buffer, pos)
                  ELSE IF b = "text" THEN <<pos[1], pos[2] + Len(d.s)>>
                  ELSE pos
        /\ cmd' = None
        /\ running' = TRUE
        /\ UNCHANGED visual_start

(***************************************************************************)
(* handle_visual.                                                          *)
(***************************************************************************)
\* NormalizedRange that compares the lines only, not the columns of one line
NormalizedRange_LinesOnly(anchor, cursor) ==
    IF anchor[1] > cursor[1] THEN <<cursor, anchor>> ELSE <<anchor, cursor>>

\* The (start, end) pair 'd' works on: anchor and cursor, swapped when the
\* anchor comes after the cursor
NormalizedRange(anchor, cursor) ==
    IF anchor[1] > cursor[1] \/ (anchor[1] = cursor[1] /\ anchor[2] > cursor[2])
    THEN <<cursor, anchor>>
    ELSE <<anchor, cursor>>

\* DeleteRange that removes the lines start.line .. end.line, the joined
\* line with them (del self.buffer[start_line:end_line+1])
DeleteRange_DropsStart(buf, start, end) ==
    IF start[1] = end[1]
    THEN LET line == LineAt(buf, start[1])
         IN  SetLine(buf, start[1], Take(line, start[2]) \o Drop(line, end[2]))
    ELSE LET joined == Take(LineAt(buf, start[1]), start[2])
                           \o Drop(LineAt(buf, end[1]), end[2])
             set == SetLine(buf, start[1], joined)
         IN  SubSeq(set, 1, start[1]) \o SubSeq(set, end[1] + 2, Len(set))

\* DeleteRange that takes the character under end with it (an inclusive end)
DeleteRange_Inclusive(buf, start, end) ==
    IF start[1] = end[1]
    THEN LET line == LineAt(buf, start[1])
         IN  SetLine(buf, start[1], Take(line, start[2]) \o Drop(line, end[2] + 1))
    ELSE LET joined == Take(LineAt(buf, start[1]), start[2])
                           \o Drop(LineAt(buf, end[1]), end[2] + 1)
             set == SetLine(buf, start[1], joined)
         IN  SubSeq(set, 1, start[1] + 1) \o SubSeq(set, end[1] + 2, Len(set))

\* The buffer after the deletion of the range from start to end
DeleteRange(buf, start, end) ==
    IF start[1] = end[1]
    THEN LET line == LineAt(buf, start[1])
         IN  SetLine(buf, start[1], Take(line, start[2]) \o Drop(line, end[2]))
    ELSE LET joined == Take(LineAt(buf, start[1]), start[2])
                           \o Drop(LineAt(buf, end[1]), end[2])
             set == SetLine(buf, start[1], joined)
         IN  SubSeq(set, 1, start[1] + 1) \o SubSeq(set, end[1] + 2, Len(set))

\* The mode handle_visual leaves for unit ch
VisualMode(m, ch) ==
    IF ch = ESC \/ ch = ord_d \/ ch = ord_y THEN "command" ELSE m

\* VisualAnchor with 'y' leaving the anchor in place
VisualAnchor_YankKeeps(anchor, ch) ==
    IF ch = ESC \/ ch = ord_d THEN None ELSE anchor

\* The anchor handle_visual leaves for unit ch
VisualAnchor(anchor, ch) ==
    IF ch = ESC \/ ch = ord_d \/ ch = ord_y THEN None ELSE anchor

\* VisualPos with 'l' missing from the units handed to handle_command
VisualPos_NoL(buf, p, ch) ==
    IF ch \in {ord_h, ord_j, ord_k} THEN CommandPos(buf, p, ch) ELSE p

\* The cursor after h/j/k/l in Visual mode: the unit is handed to
\* handle_command, which moves the cursor; any other unit leaves it
VisualPos(buf, p, ch) ==
    IF ch \in {ord_h, ord_j, ord_k, ord_l} THEN CommandPos(buf, p, ch) ELSE p

\* The 'd' branch: the buffer and the cursor after the deletion of the
\* selection between anchor and cursor
VisualDelete(buf, anchor, cursor) ==
    LET r == NormalizedRange(anchor, cursor)
    IN  [buffer |-> DeleteRange(buf, r[1], r[2]), pos |-> r[1]]

\* handle_visual with 'y' deleting the selection as 'd' does
handle_visual_YankDeletes(ch) ==
    /\ mode' = VisualMode(mode, ch)
    /\ visual_start' = VisualAnchor(visual_start, ch)
    /\ IF ch = ord_d \/ ch = ord_y
       THEN LET r == VisualDelete(buffer, visual_start, pos)
            IN  /\ buffer' = r.buffer
                /\ pos' = r.pos
       ELSE /\ pos' = VisualPos(buffer, pos, ch)
            /\ buffer' = buffer
    /\ cmd' = None
    /\ running' = TRUE
    /\ UNCHANGED utf8buffer

handle_visual(ch) ==
    /\ mode' = VisualMode(mode, ch)
    /\ visual_start' = VisualAnchor(visual_start, ch)
    /\ IF ch = ord_d
       THEN LET r == VisualDelete(buffer, visual_start, pos)
            IN  /\ buffer' = r.buffer
                /\ pos' = r.pos
       ELSE /\ pos' = VisualPos(buffer, pos, ch)
            /\ buffer' = buffer
    /\ cmd' = None
    /\ running' = TRUE
    /\ UNCHANGED utf8buffer

(***************************************************************************)
(* pos2buffer and buffer2x: screen column to buffer column and back.       *)
(***************************************************************************)
\* width = 2 if ord(c) > 127 else 1
CharWidth(c) == IF c > 127 THEN 2 ELSE 1

\* The for loop of pos2buffer from index i (0-based) with p columns passed:
\* the index returned inside the loop, or i + (x - p) + 1 once the line is
\* exhausted, i then being the last index the loop gave (0 for the empty
\* line, where the loop never assigns it)
RECURSIVE pos2buffer_loop(_, _, _, _)
pos2buffer_loop(line, x, i, p) ==
    IF i >= Len(line)
    THEN (IF Len(line) = 0 THEN 0 ELSE Len(line) - 1) + (x - p) + 1
    ELSE IF p >= x THEN i
    ELSE pos2buffer_loop(line, x, i + 1, p + CharWidth(line[i + 1]))

\* pos2buffer(pos): the buffer column of screen position pos = (y, x)
pos2buffer(buf, p) == pos2buffer_loop(LineAt(buf, p[1]), p[2], 0, 0)

\* buffer2x(y, p): the screen column of buffer column p of line y, the sum
\* of the widths of self.buffer[y][:p]
RECURSIVE buffer2x(_, _, _)
buffer2x(buf, y, p) ==
    IF Min(p, LineLen(buf, y)) = 0 THEN 0
    ELSE buffer2x(buf, y, Min(p, LineLen(buf, y)) - 1)
             + CharWidth(LineAt(buf, y)[Min(p, LineLen(buf, y))])

(***************************************************************************)
(* main_loop and handle_input: one unit read and dispatched on the mode.   *)
(***************************************************************************)
\* The cut-off of the model: the event is left out when it would grow the
\* buffer or utf8buffer past the bounds.
WithinBounds(ch, maxPending) ==
    LET d == DecodeStep(utf8buffer, ch)
        b == InsertBranch(ch, d.s)
    IN  /\ Len(d.pending) <= maxPending
        /\ b = "enter" => Len(buffer) < MaxLines
        /\ b = "text" => TotalChars(buffer) + Len(d.s) <= MaxChars

\* The record of the units read since 'i', after unit ch
NextSession(ch) ==
    IF mode = "command"
    THEN IF ch = ord_i THEN <<buffer, pos, <<>>>> ELSE None
    ELSE IF mode = "insert" /\ session # None
    THEN IF ch \in 32..126 THEN <<session[1], session[2], Append(session[3], ch)>>
         ELSE IF ch = ESC THEN session
         ELSE None
    ELSE None

\* handle_input(ch): the dispatch on self.mode
handle_input(ch) ==
    /\ key' = ch
    /\ session' = NextSession(ch)
    /\ IF mode = "command" THEN handler' = "handle_command" /\ handle_command(ch)
       ELSE IF mode = "insert" THEN handler' = "handle_insert" /\ handle_insert(ch)
       ELSE handler' = "handle_visual" /\ handle_visual(ch)

CommandEvent ==
    /\ running
    /\ mode = "command"
    /\ \E ch \in CommandKeys : handle_input(ch)

InsertEvent ==
    /\ running
    /\ mode = "insert"
    /\ \E ch \in InsertKeys : WithinBounds(ch, MaxPending) /\ handle_input(ch)

VisualEvent ==
    /\ running
    /\ mode = "visual"
    /\ \E ch \in VisualKeys : handle_input(ch)

Next == CommandEvent \/ InsertEvent \/ VisualEvent

Spec == Init /\ [][Next]_vars

(***************************************************************************)
(* The decoder's specification: Editor() with no file, the multi-byte      *)
(* characters of two, three and four bytes typed in Insert mode.           *)
(***************************************************************************)
DecodeInit == Init /\ buffer = << <<>> >>

DecodeCommandEvent ==
    /\ running
    /\ mode = "command"
    /\ \E ch \in DecodeCommandKeys : handle_input(ch)

DecodeInsertEvent ==
    /\ running
    /\ mode = "insert"
    /\ \E ch \in DecodeInsertKeys : WithinBounds(ch, MaxDecodePending) /\ handle_input(ch)

DecodeNext == DecodeCommandEvent \/ DecodeInsertEvent

DecodeSpec == DecodeInit /\ [][DecodeNext]_vars

(***************************************************************************)
(* The specification of the line operations: the three files edited with   *)
(* Enter and backspace, up to MaxSplitLines lines.                         *)
(***************************************************************************)
\* The cut-off under LineSpec
WithinLineBounds(ch) ==
    LET d == DecodeStep(utf8buffer, ch)
        b == InsertBranch(ch, d.s)
    IN  /\ b = "enter" => Len(buffer) < MaxSplitLines
        /\ b = "text" => TotalChars(buffer) + Len(d.s) <= MaxChars

LineCommandEvent ==
    /\ running
    /\ mode = "command"
    /\ \E ch \in LineCommandKeys : handle_input(ch)

LineInsertEvent ==
    /\ running
    /\ mode = "insert"
    /\ \E ch \in LineInsertKeys : WithinLineBounds(ch) /\ handle_input(ch)

LineNext == LineCommandEvent \/ LineInsertEvent

LineSpec == Init /\ [][LineNext]_vars

(***************************************************************************)
(* Properties.                                                             *)
(***************************************************************************)
\* A step in which handler h handled unit ch
Handled(h, ch) == handler' = h /\ key' = ch

\* C1: in every reachable state the cursor line is an index of the buffer
\* and the cursor column lies between 0 and the length of that line.
C1_CursorInBounds ==
    /\ pos[1] \in 0..(Len(buffer) - 1)
    /\ pos[2] \in 0..Len(buffer[pos[1] + 1])

\* Visual 'd' has just left the cursor past the last character of the last line.
C1_Witness ==
    /\ handler = "handle_visual" /\ key = ord_d
    /\ pos[1] = Len(buffer) - 1
    /\ pos[2] = Len(buffer[pos[1] + 1])
    /\ buffer = << <<97, 98>> >>

\* C2: the buffer holds at least one line in every reachable state.
C2_BufferNeverEmpty == Len(buffer) >= 1

\* A selection from the start of the first line to the end of the last of
\* several lines, whose deletion leaves the single empty line.
C2_Witness ==
    /\ mode = "visual"
    /\ Len(buffer) >= 2
    /\ {visual_start, pos} = {<<0, 0>>, <<Len(buffer) - 1, Len(buffer[Len(buffer)])>>}
    /\ ENABLED (handle_input(ord_d) /\ buffer' = << <<>> >>)

\* C3: when ':' is handled in Command mode, the session continues exactly
\* when the line read is neither "q" nor "wq".
C3_QuitEndsSession ==
    (handler = "handle_command" /\ key = ord_colon)
        => (running <=> cmd \notin {Line("q"), Line("wq")})

\* C4: the anchor is set exactly in Visual mode, and 'v' in Command mode
\* sets it to the cursor position.
C4_AnchorIffVisual ==
    /\ (visual_start # None) <=> (mode = "visual")
    /\ (handler = "handle_command" /\ key = ord_v) => visual_start = pos

\* 'y' has just left Visual mode, the cursor away from where 'v' was pressed.
C4_Witness ==
    /\ handler = "handle_visual" /\ key = ord_y
    /\ mode = "command"
    /\ visual_start = None
    /\ pos # <<0, 0>>

\* The multi-byte characters typed under DecodeSpec, with their encodings
KnownChars ==
    { [cp |-> 233, bytes |-> <<195, 169>>],
      [cp |-> 19049, bytes |-> <<228, 169, 169>>],
      [cp |-> 170601, bytes |-> <<240, 169, 169, 169>>] }

\* buf with the one character cp put in at position p
WithChar(buf, p, cp) ==
    [buf EXCEPT ![p[1] + 1] =
        SubSeq(@, 1, p[2]) \o <<cp>> \o SubSeq(@, p[2] + 1, Len(@))]

\* C5: in Insert mode, starting with utf8buffer empty, each byte but the
\* last of a multi-byte character is buffered and leaves buffer and cursor
\* alone; the last byte inserts that one character at the cursor, moves the
\* cursor one column right and empties utf8buffer.  A printable ASCII byte
\* arriving on an empty utf8buffer is inserted at once.
C5_MultiByteInsert ==
    [][ /\ \A c \in KnownChars : \A n \in 1..Len(c.bytes) :
              ( /\ mode = "insert"
                /\ utf8buffer = SubSeq(c.bytes, 1, n - 1)
                /\ Handled("handle_insert", c.bytes[n]) )
              => IF n < Len(c.bytes)
                 THEN /\ buffer' = buffer
                      /\ pos' = pos
                      /\ utf8buffer' = SubSeq(c.bytes, 1, n)
                 ELSE /\ buffer' = WithChar(buffer, pos, c.cp)
                      /\ pos' = <<pos[1], pos[2] + 1>>
                      /\ utf8buffer' = <<>>
        /\ \A ch \in 32..126 :
              ( /\ mode = "insert"
                /\ utf8buffer = <<>>
                /\ Handled("handle_insert", ch) )
              => /\ buffer' = WithChar(buffer, pos, ch)
                 /\ pos' = <<pos[1], pos[2] + 1>>
                 /\ utf8buffer' = <<>>
      ]_vars

\* The last byte of the four-byte character has just been handled and the
\* line holds the three-byte and the four-byte character.
C5_Witness ==
    /\ handler = "handle_insert" /\ key = Cont
    /\ mode = "insert"
    /\ utf8buffer = <<>>
    /\ buffer = << <<19049, 170601>> >>
    /\ pos = <<0, 2>>

\* bs is a proper prefix of the well-formed encoding of one character: more
\* bytes can still make it valid
Utf8Incomplete(bs) ==
    /\ Len(bs) >= 1
    /\ Len(bs) < Utf8SeqLen(bs[1])
    /\ Len(bs) >= 2 => bs[2] \in Utf8SecondRange(bs[1])
    /\ \A i \in 3..Len(bs) : bs[i] \in 128..191

\* C6: in Insert mode, a unit that makes utf8buffer structurally invalid
\* (not decodable and not a prefix of anything decodable) empties
\* utf8buffer and inserts nothing.
C6_InvalidBytesDiscarded ==
    [][ \A ch \in 0..255 :
          ( /\ mode = "insert"
            /\ ch # ESC
            /\ Handled("handle_insert", ch)
            /\ ~Utf8Decode(Append(utf8buffer, ch)).ok
            /\ ~Utf8Incomplete(Append(utf8buffer, ch)) )
          => /\ utf8buffer' = <<>>
             /\ TotalChars(buffer') <= TotalChars(buffer)
      ]_vars

\* The control units of Insert mode
ControlKeys == {ESC, ENTER, DEL, KEY_BACKSPACE} \cup {k \in InsertKeys : k >= 256}

\* C7: in Insert mode, a control unit arriving while utf8buffer is not
\* empty empties it, and is handled itself: ESC leaves for Command mode,
\* Enter adds a line, backspace at a column > 0 removes a character.
C7_ControlClearsPending ==
    [][ \A ch \in ControlKeys :
          ( /\ mode = "insert"
            /\ utf8buffer # <<>>
            /\ Handled("handle_insert", ch) )
          => /\ utf8buffer' = <<>>
             /\ ch = ESC => mode' = "command"
             /\ ch = ENTER => Len(buffer') = Len(buffer) + 1
             /\ (ch \in {DEL, KEY_BACKSPACE} /\ pos[2] > 0)
                    => TotalChars(buffer') = TotalChars(buffer) - 1
      ]_vars

\* C8: 'd' in Visual mode leaves the buffer, the cursor and the mode that
\* 'd' would leave with anchor and cursor exchanged.
C8_DeleteSymmetric ==
    [][ (mode = "visual" /\ Handled("handle_visual", ord_d))
          => /\ buffer' = VisualDelete(buffer, pos, visual_start).buffer
             /\ pos' = VisualDelete(buffer, pos, visual_start).pos
             /\ mode' = VisualMode(mode, ord_d)
      ]_vars

\* The cursor is on an earlier line than the anchor, and 'd' changes the buffer.
C8_Witness ==
    /\ mode = "visual"
    /\ pos[1] < visual_start[1]
    /\ pos[2] > visual_start[2]
    /\ ENABLED (handle_input(ord_d) /\ buffer' # buffer /\ pos' = pos)

\* The earlier and the later of anchor and cursor in (line, column) order
RangeStart ==
    IF visual_start[1] < pos[1] \/ (visual_start[1] = pos[1] /\ visual_start[2] <= pos[2])
    THEN visual_start ELSE pos

RangeEnd == IF RangeStart = visual_start THEN pos ELSE visual_start

\* buf without the characters from start up to end: line start.line is its
\* prefix before start.column followed by the suffix of line end.line from
\* end.column, the lines start.line+1 .. end.line are gone, the others stay.
WithoutRange(buf, start, end) ==
    [i \in 1..(Len(buf) - (end[1] - start[1])) |->
        IF i <= start[1] THEN buf[i]
        ELSE IF i = start[1] + 1
             THEN SubSeq(buf[start[1] + 1], 1, start[2])
                      \o SubSeq(buf[end[1] + 1], end[2] + 1, Len(buf[end[1] + 1]))
             ELSE buf[i + (end[1] - start[1])]]

\* C9: 'd' in Visual mode with normalized range (start, end) removes the
\* characters from start up to end (joining the two end lines when they
\* differ), leaves the cursor at start, clears the anchor and returns to
\* Command mode.
C9_VisualDelete ==
    [][ (mode = "visual" /\ Handled("handle_visual", ord_d))
          => /\ buffer' = WithoutRange(buffer, RangeStart, RangeEnd)
             /\ Len(buffer') = Len(buffer) - (RangeEnd[1] - RangeStart[1])
             /\ pos' = RangeStart
             /\ visual_start' = None
             /\ mode' = "command"
      ]_vars

\* ["ab", "cd"] selected from (0,1) to (1,1): 'd' leaves ["ad"], cursor (0,1).
C9_Witness ==
    /\ mode = "visual"
    /\ buffer = << <<97, 98>>, <<99, 100>> >>
    /\ visual_start = <<0, 1>>
    /\ pos = <<1, 1>>
    /\ ENABLED ( /\ handle_input(ord_d)
                 /\ buffer' = << <<97, 100>> >>
                 /\ pos' = <<0, 1>>
                 /\ mode' = "command" )

\* C10: 'v' followed at once by 'd' leaves every line and the cursor as
\* they were and ends in Command mode.
C10_EmptyRangeDelete ==
    [][ ( /\ mode = "visual"
          /\ handler = "handle_command" /\ key = ord_v
          /\ Handled("handle_visual", ord_d) )
          => /\ buffer' = buffer
             /\ pos' = pos
             /\ mode' = "command"
      ]_vars

\* 'v' has just been pressed inside a line of several characters, and 'd'
\* leaves buffer and cursor alone.
C10_Witness ==
    /\ mode = "visual"
    /\ handler = "handle_command" /\ key = ord_v
    /\ pos[2] > 0 /\ pos[2] < Len(buffer[pos[1] + 1])
    /\ ENABLED ( /\ handle_input(ord_d)
                 /\ buffer' = buffer
                 /\ pos' = pos
                 /\ mode' = "command" )

\* buf with line l (counted from 0) split at column c
WithSplit(buf, l, c) ==
    [i \in 1..(Len(buf) + 1) |->
        IF i <= l THEN buf[i]
        ELSE IF i = l + 1 THEN SubSeq(buf[l + 1], 1, c)
        ELSE IF i = l + 2 THEN SubSeq(buf[l + 1], c + 1, Len(buf[l + 1]))
        ELSE buf[i - 1]]

\* C11: Enter in Insert mode at cursor (l, c) leaves line l as its prefix
\* before c, puts the rest of it in a new line l+1, keeps the other lines in
\* order, moves the cursor to (l+1, 0) and stays in Insert mode; the two
\* lines joined are the old line.
C11_EnterSplitsLine ==
    [][ (mode = "insert" /\ Handled("handle_insert", ENTER))
          => /\ buffer' = WithSplit(buffer, pos[1], pos[2])
             /\ Len(buffer') = Len(buffer) + 1
             /\ buffer'[pos[1] + 1] \o buffer'[pos[1] + 2] = buffer[pos[1] + 1]
             /\ pos' = <<pos[1] + 1, 0>>
             /\ mode' = "insert"
      ]_vars

\* ["ab", "cd"] with the cursor at (0,2): Enter leaves ["ab", "", "cd"],
\* cursor (1,0).
C11_Witness ==
    /\ mode = "insert"
    /\ buffer = << <<97, 98>>, <<99, 100>> >>
    /\ pos = <<0, 2>>
    /\ ENABLED ( /\ WithinLineBounds(ENTER)
                 /\ handle_input(ENTER)
                 /\ buffer' = << <<97, 98>>, <<>>, <<99, 100>> >>
                 /\ pos' = <<1, 0>>
                 /\ mode' = "insert" )

\* C12: 'i' in Command mode at cursor (l, c), then k >= 1 printable ASCII
\* characters, then ESC: the mode is Command, line l is its old prefix
\* before c, the typed characters and its old rest, the other lines are as
\* they were, and the cursor is at (l, c + k - 1).  ESC in Insert mode
\* always leaves for Command mode and moves the cursor one column left
\* exactly when the column is > 0.
C12_InsertThenEscape ==
    /\ [] ( ( /\ handler = "handle_insert" /\ key = ESC
               /\ session # None
               /\ Len(session[3]) >= 1 )
             => LET old == session[1]
                    l == session[2][1]
                    c == session[2][2]
                    typed == session[3]
                IN  /\ mode = "command"
                    /\ buffer = [old EXCEPT ![l + 1] =
                                    SubSeq(@, 1, c) \o typed \o SubSeq(@, c + 1, Len(@))]
                    /\ pos = <<l, c + Len(typed) - 1>> )
    /\ [][ (mode = "insert" /\ Handled("handle_insert", ESC))
              => /\ mode' = "command"
                 /\ pos' = <<pos[1], IF pos[2] > 0 THEN pos[2] - 1 ELSE 0>>
                 /\ buffer' = buffer
          ]_vars

\* ["a"] with the cursor at (0,0): 'i', 'a', ESC has left ["aa"], cursor (0,0).
C12_Witness ==
    /\ handler = "handle_insert" /\ key = ESC
    /\ session = << << <<97>> >>, <<0, 0>>, <<97>> >>
    /\ buffer = << <<97, 97>> >>
    /\ pos = <<0, 0>>
    /\ mode = "command"

\* The units of the model no branch of the handler of mode m acts on
IgnoredKeys(m) ==
    IF m = "command" THEN {ord_x, ord_d}
    ELSE IF m = "visual" THEN {ord_i, ord_a}
    ELSE {TAB, KEY_DOWN}

\* C13: an input event that no row of the transition table matches ('x'
\* or 'd' in Command mode, 'i' or 'a' in Visual mode, a tab or an unhandled
\* special key in Insert mode) leaves mode, buffer, cursor and anchor as
\* they were, and the session continues.
C13_UnmatchedIgnored ==
    [][ \A ch \in IgnoredKeys(mode) :
          key' = ch
          => /\ mode' = mode
             /\ buffer' = buffer
             /\ pos' = pos
             /\ visual_start' = visual_start
             /\ running'
      ]_vars

\* A tab has just been handled in Insert mode, in a line that holds text,
\* with the cursor inside it.
C13_Witness ==
    /\ handler = "handle_insert" /\ key = TAB
    /\ mode = "insert"
    /\ utf8buffer = <<>>
    /\ pos[2] > 0
    /\ pos[2] < Len(buffer[pos[1] + 1])

\* C14: backspace (127 or KEY_BACKSPACE) in Insert mode at cursor (l, c):
\* with c > 0 the character at index c-1 of line l goes and the cursor
\* moves to (l, c-1); with c = 0 neither buffer nor cursor changes (no join
\* with the line before).  The mode stays Insert and the other lines and
\* the number of lines stay as they were.
C14_Backspace ==
    [][ \A ch \in {DEL, KEY_BACKSPACE} :
          (mode = "insert" /\ Handled("handle_insert", ch))
          => /\ mode' = "insert"
             /\ IF pos[2] > 0
                THEN /\ buffer' = [buffer EXCEPT ![pos[1] + 1] =
                                      SubSeq(@, 1, pos[2] - 1) \o SubSeq(@, pos[2] + 1, Len(@))]
                     /\ pos' = <<pos[1], pos[2] - 1>>
                ELSE /\ buffer' = buffer
                     /\ pos' = pos
      ]_vars

\* The cursor is in Insert mode at column 0 of the second line, the line
\* before it holds text, and backspace changes neither buffer nor cursor.
C14_Witness ==
    /\ mode = "insert"
    /\ pos = <<1, 0>>
    /\ Len(buffer[1]) > 0 /\ Len(buffer[2]) > 0
    /\ ENABLED ( /\ WithinBounds(DEL, MaxPending)
                 /\ handle_input(DEL)
                 /\ buffer' = buffer
                 /\ pos' = pos )

\* C15: 'j' (resp. 'k') in Command mode at cursor (l, c) moves to the next
\* (resp. previous) line when there is one, the column cut down to that
\* line's length, and leaves the cursor alone on the last (resp. first)
\* line; the column never grows.
C15_VerticalMotion ==
    [][ /\ (mode = "command" /\ Handled("handle_command", ord_j))
              => /\ pos' = IF pos[1] + 1 < Len(buffer)
                           THEN <<pos[1] + 1,
                                  IF pos[2] < Len(buffer[pos[1] + 2])
                                  THEN pos[2] ELSE Len(buffer[pos[1] + 2])>>
                           ELSE pos
                 /\ pos'[2] <= pos[2]
        /\ (mode = "command" /\ Handled("handle_command", ord_k))
              => /\ pos' = IF pos[1] > 0
                           THEN <<pos[1] - 1,
                                  IF pos[2] < Len(buffer[pos[1]])
                                  THEN pos[2] ELSE Len(buffer[pos[1]])>>
                           ELSE pos
                 /\ pos'[2] <= pos[2]
      ]_vars

\* The cursor stands in Command mode at a column beyond the length of the
\* next line, and 'j' cuts the column down to that length.
C15_Witness ==
    /\ mode = "command"
    /\ pos[1] + 1 < Len(buffer)
    /\ pos[2] > Len(buffer[pos[1] + 2])
    /\ ENABLED ( /\ handle_input(ord_j)
                 /\ pos' = <<pos[1] + 1, Len(buffer[pos[1] + 2])>> )

\* C16: h, j, k and l in Visual mode move the cursor to where the same
\* unit moves it in Command mode from the same buffer and cursor; the mode
\* stays Visual, and the anchor and the buffer stay as they were.
C16_VisualMotion ==
    [][ \A ch \in {ord_h, ord_j, ord_k, ord_l} :
          (mode = "visual" /\ Handled("handle_visual", ch))
          => /\ pos' = CommandPos(buffer, pos, ch)
             /\ ENABLED (handle_command(ch) /\ pos' = CommandPos(buffer, pos, ch))
             /\ mode' = "visual"
             /\ visual_start' = visual_start
             /\ buffer' = buffer
      ]_vars

\* 'l' in Visual mode has just moved the cursor off the anchor.
C16_Witness ==
    /\ handler = "handle_visual" /\ key = ord_l
    /\ mode = "visual"
    /\ visual_start # None
    /\ pos = <<visual_start[1], visual_start[2] + 1>>

\* C17: an Insert-mode step that adds text adds one character: whatever
\* utf8buffer holds and whatever unit comes in, when the buffer grows, the
\* cursor line grows by one, the new character sits at the old cursor
\* column, nothing else in the buffer changes, and the cursor column grows
\* by one.
C17_OneCodepoint ==
    [][ ( /\ mode = "insert"
          /\ handler' = "handle_insert"
          /\ TotalChars(buffer') > TotalChars(buffer) )
        => /\ Len(buffer'[pos[1] + 1]) = Len(buffer[pos[1] + 1]) + 1
           /\ buffer' = WithChar(buffer, pos, buffer'[pos[1] + 1][pos[2] + 1])
           /\ pos' = <<pos[1], pos[2] + 1>>
      ]_vars

\* The last byte of the two-byte character has just been handled, with the
\* first byte waiting in utf8buffer before it, and the character stands in
\* front of the 'a' typed earlier.
C17_Witness ==
    /\ handler = "handle_insert" /\ key = Cont
    /\ mode = "insert"
    /\ utf8buffer = <<>>
    /\ buffer = << <<233, ord_a>> >>
    /\ pos = <<0, 1>>

\* C18: the buffer changes only in Insert-mode steps and in 'd' of Visual
\* mode.  No Command-mode step (i, a, v, h, j, k, l, ':' with any line
\* typed after it) and no Visual-mode step other than 'd' changes a line or
\* the number of lines; 'y' and ESC in Visual mode leave the cursor alone
\* as well.
C18_BufferFrame ==
    [][ /\ buffer' # buffer
              => \/ mode = "insert" /\ handler' = "handle_insert"
                 \/ mode = "visual" /\ Handled("handle_visual", ord_d)
        /\ handler' = "handle_command" => buffer' = buffer
        /\ \A ch \in {ord_y, ESC} :
              (mode = "visual" /\ Handled("handle_visual", ch))
              => buffer' = buffer /\ pos' = pos
      ]_vars

\* A Visual selection of at least one character is open, and 'y' leaves the
\* buffer and the cursor as they are.
C18_Witness ==
    /\ mode = "visual"
    /\ visual_start # None /\ visual_start # pos
    /\ ENABLED ( /\ handle_input(ord_y)
                 /\ mode' = "command"
                 /\ buffer' = buffer
                 /\ pos' = pos )

\* C19: utf8buffer is empty in every state whose mode is not Insert.  The
\* only step that leaves Insert mode is ESC, which empties utf8buffer, and
\* the steps of Command and Visual mode leave utf8buffer alone, so bytes
\* kept in one Insert session never meet bytes typed in a later one.
C19_PendingOnlyInInsert ==
    /\ [](mode # "insert" => utf8buffer = <<>>)
    /\ [][ /\ (mode = "insert" /\ mode' # "insert")
                 => key' = ESC /\ utf8buffer' = <<>>
           /\ mode # "insert" => utf8buffer' = utf8buffer
           /\ (mode # "insert" /\ mode' = "insert") => utf8buffer' = <<>>
         ]_vars

\* Insert mode holds undecoded bytes, and ESC from here leaves Insert mode
\* with utf8buffer empty.
C19_Witness ==
    /\ mode = "insert"
    /\ utf8buffer # <<>>
    /\ ENABLED ( /\ handle_input(ESC)
                 /\ mode' = "command"
                 /\ utf8buffer' = <<>> )

\* C20: the conversion between buffer column and screen column goes there
\* and back: for every line of the buffer, the empty line and lines with
\* characters above code point 127 among them, and every column c from 0
\* to the length of the line, pos2buffer of buffer2x of c is c again, a
\* column of the line.
C20_ColumnRoundTrip ==
    \A y \in 0..(Len(buffer) - 1) : \A c \in 0..LineLen(buffer, y) :
        pos2buffer(buffer, <<y, buffer2x(buffer, y, c)>>) = c

\* The round trip on the lines that hold at least one character
RoundTripOnNonEmptyLines ==
    \A y \in 0..(Len(buffer) - 1) : \A c \in 0..LineLen(buffer, y) :
        LineLen(buffer, y) > 0
        => pos2buffer(buffer, <<y, buffer2x(buffer, y, c)>>) = c

=============================================================================
